---- MODULE Spec2Model ----
(***************************************************************************)
(* Model of douglasmg7/boat_plan: the si quantity layer (Length, Weight,   *)
(* Area), the Boat value holder, and the three ratio calculators bundled   *)
(* by Ratios::new.  Every quantity of the program is an f64; the model     *)
(* carries IEEE-754 binary64 values exactly (sign, 53-bit significand,     *)
(* exponent) and rounds every operation to nearest, ties to even, so that  *)
(* threshold comparisons and unit round trips behave as they do in the     *)
(* build.                                                                  *)
(***************************************************************************)
EXTENDS Integers, Sequences, FiniteSets, TLC

(***************************************************************************)
(* Natural numbers of arbitrary size: little-endian sequences of limbs in  *)
(* 0..Base-1 without a most-significant zero limb (zero is <<>>).  TLC's   *)
(* integers are 32-bit, a significand product needs 106 bits.              *)
(***************************************************************************)
LimbBits == 3 * 5

Base == 2^LimbBits

SetMax(S) == CHOOSE x \in S : \A y \in S : y <= x

BNorm(a) ==
    LET nz == {i \in DOMAIN a : a[i] # 0}
    IN  IF nz = {} THEN <<>> ELSE SubSeq(a, 1, SetMax(nz))

RECURSIVE BFromInt(_)
BFromInt(n) == IF n = 0 THEN <<>> ELSE <<n % Base>> \o BFromInt(n \div Base)

BLimb(a, i) == IF i >= 1 /\ i <= Len(a) THEN a[i] ELSE 0

\* a + b: limb sums, and the carry into limb i, which comes from the nearest
\* limb below that overflows through limbs that are all Base - 1.
BAdd(a, b) ==
    IF a = <<>> THEN b
    ELSE IF b = <<>> THEN a
    ELSE LET n    == IF Len(a) > Len(b) THEN Len(a) ELSE Len(b)
             s    == [i \in 1..n |-> BLimb(a, i) + BLimb(b, i)]
             c(i) == IF \E j \in 1..(i - 1) :
                            s[j] >= Base /\ \A k \in (j + 1)..(i - 1) : s[k] = Base - 1
                     THEN 1 ELSE 0
         IN  BNorm([i \in 1..(n + 1) |->
                      IF i <= n THEN (s[i] + c(i)) % Base ELSE c(i)])

\* a - b for a >= b: limb differences and the borrow into limb i.
BSub(a, b) ==
    IF b = <<>> THEN a
    ELSE IF a = b THEN <<>>
    ELSE LET d    == [i \in 1..Len(a) |-> a[i] - BLimb(b, i)]
             c(i) == IF \E j \in 1..(i - 1) :
                            d[j] < 0 /\ \A k \in (j + 1)..(i - 1) : d[k] = 0
                     THEN 1 ELSE 0
         IN  BNorm([i \in 1..Len(a) |-> (d[i] - c(i)) % Base])

\* -1, 0, 1 as a < b, a = b, a > b.
BCmp(a, b) ==
    IF Len(a) # Len(b) THEN (IF Len(a) < Len(b) THEN -1 ELSE 1)
    ELSE LET df == {i \in DOMAIN a : a[i] # b[i]}
         IN  IF df = {} THEN 0
             ELSE IF a[SetMax(df)] < b[SetMax(df)] THEN -1 ELSE 1

\* a * k for 0 <= k < Base.
BMulSmall(a, k) ==
    IF a = <<>> \/ k = 0 THEN <<>>
    ELSE IF k = 1 THEN a
    ELSE LET p == [i \in 1..Len(a) |-> a[i] * k]
         IN  BAdd(BNorm([i \in 1..Len(a) |-> p[i] % Base]),
                  BNorm(<<0>> \o [i \in 1..Len(a) |-> p[i] \div Base]))

BShiftLimbs(a, n) == IF a = <<>> \/ n = 0 THEN a ELSE [i \in 1..n |-> 0] \o a

\* Limb k of a * b before carrying: the low halves of the limb products of
\* column k and the high halves of those of column k - 1, from a[i] on.
RECURSIVE BMulColumn(_, _, _, _)
BMulColumn(a, b, k, i) ==
    IF i > Len(a) \/ i > k THEN 0
    ELSE ((a[i] * BLimb(b, k + 1 - i)) % Base)
             + ((a[i] * BLimb(b, k - i)) \div Base)
             + BMulColumn(a, b, k, i + 1)

BMul(a, b) ==
    IF a = <<>> \/ b = <<>> THEN <<>>
    ELSE LET n == Len(a) + Len(b)
             c == [k \in 1..n |-> BMulColumn(a, b, k, 1)]
         IN  BAdd(BNorm([k \in 1..n |-> c[k] % Base]),
                  BNorm(<<0>> \o [k \in 1..n |-> c[k] \div Base]))

\* a * 2^n.
BShl(a, n) ==
    IF a = <<>> \/ n = 0 THEN a
    ELSE BShiftLimbs(BMulSmall(a, 2^(n % LimbBits)), n \div LimbBits)

\* floor(a / 2^n).
BShr(a, n) ==
    IF a = <<>> \/ n = 0 THEN a
    ELSE LET d == n \div LimbBits
             r == n % LimbBits
             h == IF d >= Len(a) THEN <<>> ELSE SubSeq(a, d + 1, Len(a))
         IN  BNorm([i \in 1..Len(h) |->
                      (h[i] \div 2^r) + (BLimb(h, i + 1) % 2^r) * 2^(LimbBits - r)])

\* The bit length of a limb.
IntBitLen(n) ==
    IF n = 0 THEN 0 ELSE CHOOSE k \in 1..LimbBits : 2^(k - 1) <= n /\ n < 2^k

BBitLen(a) == IF a = <<>> THEN 0 ELSE LimbBits * (Len(a) - 1) + IntBitLen(a[Len(a)])

\* Bit i (bit 0 is the least significant) of a.
BBit(a, i) == (BLimb(a, (i \div LimbBits) + 1) \div 2^(i % LimbBits)) % 2

\* Whether a is a multiple of 2^n.
BLowZero(a, n) ==
    \/ n <= 0
    \/ /\ \A i \in 1..(n \div LimbBits) : BLimb(a, i) = 0
       /\ BLimb(a, (n \div LimbBits) + 1) % 2^(n % LimbBits) = 0

\* The largest d with d * b <= r, for r < b * Base and b's top limb at least
\* Base / 2, from the quotient d0 of the leading limbs, which is at most 2 too
\* large.
BDigitFrom(r, b, d0) ==
    IF d0 = 0 \/ BCmp(BMulSmall(b, d0), r) <= 0 THEN d0
    ELSE IF d0 = 1 \/ BCmp(BMulSmall(b, d0 - 1), r) <= 0 THEN d0 - 1
    ELSE d0 - 2

BDigitCap(e) == IF e > Base - 1 THEN Base - 1 ELSE e

BDigit(r, b) ==
    BDigitFrom(r, b,
        BDigitCap((BLimb(r, Len(b) + 1) * Base + BLimb(r, Len(b))) \div b[Len(b)]))

\* Long division of a by b (b's top limb at least Base / 2), limb i of a down to
\* limb 1: q collects the quotient's limbs, r is the running remainder; BDivPut
\* writes the digit d of the remainder r2 that limb i has been brought down to.
RECURSIVE BDivAt(_, _, _, _, _)
BDivPut(a, b, i, q, r2, d) ==
    IF d = 0 THEN BDivAt(a, b, i - 1, <<0>> \o q, r2)
    ELSE BDivAt(a, b, i - 1, <<d>> \o q, BSub(r2, BMulSmall(b, d)))

BDivDown(a, b, i, q, r2) == BDivPut(a, b, i, q, r2, BDigit(r2, b))

BDivAt(a, b, i, q, r) ==
    IF i = 0 THEN <<BNorm(q), r>>
    ELSE BDivDown(a, b, i, q, BNorm(<<a[i]>> \o r))

\* The shift that brings b's top limb to Base / 2 or more.
BDivShift(b) == LimbBits - IntBitLen(b[Len(b)])

BDivScaled(a2, b2, k) ==
    BDivAt(a2, b2, Len(a2) - k, <<>>, BNorm(SubSeq(a2, Len(a2) - k + 1, Len(a2))))

BDivUnscale(qr, sh) == <<qr[1], BShr(qr[2], sh)>>

\* <<floor(a / b), a mod b>> for b > 0.  Both are scaled by 2^sh to bring b's top
\* limb to Base / 2 or more; the first Len(b) - 1 limbs of a are below b.
BDivMod(a, b) ==
    IF BCmp(a, b) < 0 THEN <<<<>>, a>>
    ELSE BDivUnscale(BDivScaled(BShl(a, BDivShift(b)), BShl(b, BDivShift(b)),
                                Len(b) - 1),
                     BDivShift(b))

(***************************************************************************)
(* f64.  A value is a record: k is "fin" (finite, non-zero), "zero", "inf" *)
(* or "nan"; s is the sign bit; a finite value is m * 2^e with             *)
(* 2^52 <= m < 2^53.  Every operation computes the exact result and rounds *)
(* it to nearest, ties to even, as IEEE-754 binary64 does.  Subnormals are *)
(* not modelled: no quantity of the model comes near 2^-1022.              *)
(***************************************************************************)
MantBits == 53

MaxExp == 971

FNaN == [k |-> "nan", s |-> 0, m |-> <<>>, e |-> 0]

FInf(s) == [k |-> "inf", s |-> s, m |-> <<>>, e |-> 0]

FZero(s) == [k |-> "zero", s |-> s, m |-> <<>>, e |-> 0]

FFin(s, m, e) ==
    IF e > MaxExp THEN FInf(s) ELSE [k |-> "fin", s |-> s, m |-> m, e |-> e]

\* The f64 of sign s and magnitude q1 * 2^e, q1 of MantBits or MantBits + 1 bits
\* with the low bit clear in the latter case (a rounding that carried).
FRoundCarry(s, q1, e) ==
    IF BBitLen(q1) > MantBits THEN FFin(s, BShr(q1, 1), e + 1) ELSE FFin(s, q1, e)

\* Round to nearest, ties to even: q is the kept part, half the first dropped
\* bit, rest whether anything lies below it.
FRoundUp(s, q, e, half, rest) ==
    FRoundCarry(s, IF half /\ (rest \/ BBit(q, 0) = 1) THEN BAdd(q, <<1>>) ELSE q, e)

FRoundDrop(s, n, e, sticky, drop) ==
    IF drop <= 0 THEN FFin(s, BShl(n, -drop), e + drop)
    ELSE FRoundUp(s, BShr(n, drop), e + drop,
                  BBit(n, drop - 1) = 1, sticky \/ ~BLowZero(n, drop - 1))

\* The f64 nearest to n * 2^e (n > 0); sticky says that the exact value lies
\* strictly above n * 2^e and below (n + 1) * 2^e, which callers only say of an n
\* wider than MantBits + 1 bits.
FRoundBig(s, n, e, sticky) ==
    IF n = <<>> THEN FZero(s) ELSE FRoundDrop(s, n, e, sticky, BBitLen(n) - MantBits)

\* The f64 nearest to a quotient: qr is <<quotient, remainder>> of a division
\* whose quotient has more than MantBits + 1 bits.
FQuot(s, qr, e) == FRoundBig(s, qr[1], e, qr[2] # <<>>)

FLitShift(den) == MantBits + 3 + BBitLen(BFromInt(den))

\* A decimal literal of the source, num / den (den a power of ten), as rustc
\* reads it: the nearest f64.
FLit(num, den) ==
    IF num = 0 THEN FZero(0)
    ELSE FQuot(IF num < 0 THEN 1 ELSE 0,
               BDivMod(BShl(BFromInt(IF num < 0 THEN -num ELSE num), FLitShift(den)),
                       BFromInt(den)),
               -FLitShift(den))

FNeg(x) == IF x.k = "nan" THEN x ELSE [x EXCEPT !.s = 1 - x.s]

FSignXor(x, y) == (x.s + y.s) % 2

FMul(x, y) ==
    IF x.k = "nan" \/ y.k = "nan" THEN FNaN
    ELSE IF x.k = "inf" \/ y.k = "inf"
         THEN (IF x.k = "zero" \/ y.k = "zero" THEN FNaN ELSE FInf(FSignXor(x, y)))
    ELSE IF x.k = "zero" \/ y.k = "zero" THEN FZero(FSignXor(x, y))
    ELSE FRoundBig(FSignXor(x, y), BMul(x.m, y.m), x.e + y.e, FALSE)

FDiv(x, y) ==
    IF x.k = "nan" \/ y.k = "nan" THEN FNaN
    ELSE IF x.k = "inf" THEN (IF y.k = "inf" THEN FNaN ELSE FInf(FSignXor(x, y)))
    ELSE IF y.k = "inf" THEN FZero(FSignXor(x, y))
    ELSE IF y.k = "zero" THEN (IF x.k = "zero" THEN FNaN ELSE FInf(FSignXor(x, y)))
    ELSE IF x.k = "zero" THEN FZero(FSignXor(x, y))
    ELSE FQuot(FSignXor(x, y), BDivMod(BShl(x.m, MantBits + 3), y.m),
               x.e - y.e - (MantBits + 3))

\* The sum of two finite values given as magnitudes nx, ny in units of 2^e.
FAddMags(sx, sy, nx, ny, e) ==
    IF sx = sy THEN FRoundBig(sx, BAdd(nx, ny), e, FALSE)
    ELSE IF BCmp(nx, ny) = 0 THEN FZero(0)
    ELSE IF BCmp(nx, ny) > 0 THEN FRoundBig(sx, BSub(nx, ny), e, FALSE)
    ELSE FRoundBig(sy, BSub(ny, nx), e, FALSE)

FAddAt(x, y, e) == FAddMags(x.s, y.s, BShl(x.m, x.e - e), BShl(y.m, y.e - e), e)

FAdd(x, y) ==
    IF x.k = "nan" \/ y.k = "nan" THEN FNaN
    ELSE IF x.k = "inf"
         THEN (IF y.k = "inf" /\ y.s # x.s THEN FNaN ELSE x)
    ELSE IF y.k = "inf" THEN y
    ELSE IF x.k = "zero"
         THEN (IF y.k = "zero" THEN FZero(IF x.s = 1 /\ y.s = 1 THEN 1 ELSE 0) ELSE y)
    ELSE IF y.k = "zero" THEN x
    ELSE FAddAt(x, y, IF x.e < y.e THEN x.e ELSE y.e)

\* -1, 0, 1 as |x| < |y|, |x| = |y|, |x| > |y|, for x and y not NaN.
FCmpAbs(x, y) ==
    LET rank(v) == IF v.k = "zero" THEN 0 ELSE IF v.k = "fin" THEN 1 ELSE 2
    IN  IF rank(x) # rank(y) THEN (IF rank(x) < rank(y) THEN -1 ELSE 1)
        ELSE IF x.k # "fin" THEN 0
        ELSE IF x.e # y.e THEN (IF x.e < y.e THEN -1 ELSE 1)
        ELSE BCmp(x.m, y.m)

\* -1, 0, 1 as x < y, x = y, x > y, for x and y not NaN (-0.0 equals 0.0).
FCmp(x, y) ==
    IF x.k = "zero" /\ y.k = "zero" THEN 0
    ELSE IF x.k = "zero" THEN (IF y.s = 1 THEN 1 ELSE -1)
    ELSE IF y.k = "zero" THEN (IF x.s = 1 THEN -1 ELSE 1)
    ELSE IF x.s # y.s THEN (IF x.s = 1 THEN -1 ELSE 1)
    ELSE IF x.s = 0 THEN FCmpAbs(x, y) ELSE FCmpAbs(y, x)

\* The comparison operators of f64: every one is false when an operand is NaN.
\* Variant: a comparison that takes NaN for an ordinary value.
FOrdered_total(x, y) == TRUE

FOrdered(x, y) == x.k # "nan" /\ y.k # "nan"

FLt(x, y) == FOrdered(x, y) /\ FCmp(x, y) < 0

FLe(x, y) == FOrdered(x, y) /\ FCmp(x, y) <= 0

FGt(x, y) == FOrdered(x, y) /\ FCmp(x, y) > 0

FGe(x, y) == FOrdered(x, y) /\ FCmp(x, y) >= 0

FEq(x, y) == FOrdered(x, y) /\ FCmp(x, y) = 0

\* f64::round: the nearest integer, halves away from zero.
F64_round(x) ==
    IF x.k # "fin" \/ x.e >= 0 THEN x
    ELSE FRoundBig(x.s, BAdd(BShr(x.m, -x.e), BFromInt(BBit(x.m, -x.e - 1))), 0, FALSE)

\* The f64 that lies n places (units in the last place) from a finite x, away
\* from zero for n > 0 and towards zero for n < 0.
RECURSIVE FStep(_, _)
FStep(x, n) ==
    IF n = 0 \/ x.k # "fin" THEN x
    ELSE IF n > 0
         THEN (IF BBitLen(BAdd(x.m, <<1>>)) > MantBits
               THEN FStep(FFin(x.s, BShl(<<1>>, MantBits - 1), x.e + 1), n - 1)
               ELSE FStep(FFin(x.s, BAdd(x.m, <<1>>), x.e), n - 1))
    ELSE (IF BBitLen(BSub(x.m, <<1>>)) < MantBits
          THEN FStep(FFin(x.s, BSub(BShl(<<1>>, MantBits), <<1>>), x.e - 1), n + 1)
          ELSE FStep(FFin(x.s, BSub(x.m, <<1>>), x.e), n + 1))

\* n^3.
BCube(n) == IF n = <<>> THEN n ELSE BMul(n, BMul(n, n))

\* floor of the cube root of n, from an estimate y: down while y^3 > n, up while
\* (y + 1)^3 <= n.
RECURSIVE BCbrtFix(_, _)
BCbrtFix(n, y) ==
    IF y = <<>> THEN BCbrtFix(n, <<1>>)
    ELSE IF BCmp(BCube(y), n) > 0 THEN BCbrtFix(n, BSub(y, <<1>>))
    ELSE IF BCmp(BCube(BAdd(y, <<1>>)), n) <= 0 THEN BCbrtFix(n, BAdd(y, <<1>>))
    ELSE y

\* Cube root of an integer below Base^2, one bit at a time from bit b down.
RECURSIVE ICbrtBits(_, _, _)
ICbrtBits(v, r, b) ==
    IF b < 0 THEN r
    ELSE ICbrtBits(v, IF (r + 2^b) * (r + 2^b) * (r + 2^b) <= v THEN r + 2^b ELSE r,
                   b - 1)

\* One step of Newton's iteration from the estimate x, (2x + n / x^2) / 3, then
\* BCbrtFix for the last place.
BCbrtNewton(n, x) ==
    IF x = <<>> THEN <<>>
    ELSE BCbrtFix(n, BDivMod(BAdd(BMulSmall(x, 2), BDivMod(n, BMul(x, x))[1]),
                             <<3>>)[1])

\* Half the bit length of the cube root of n, less one.
BCbrtShift(n) == (((BBitLen(n) + 2) \div 3) \div 2) - 1

\* floor(n^(1/3)).  Below Base^2 the root is searched; above, the root of
\* n / 2^(3k) (about half the bits of the root of n), scaled by 2^k, is the
\* estimate that BCbrtNewton makes exact.
RECURSIVE BCbrt(_)
BCbrt(n) ==
    IF Len(n) = 0 THEN <<>>
    ELSE IF Len(n) <= 2
         THEN BFromInt(ICbrtBits(n[1] + Base * BLimb(n, 2), 0, (2 * LimbBits) \div 3 - 1))
    ELSE BCbrtNewton(n, BShl(BCbrt(BShr(n, 3 * BCbrtShift(n))), BCbrtShift(n)))
(***************************************************************************)
(* State.                                                                  *)
(*   boat    the Boat                                                      *)
(*   ratios  the Ratios value the caller holds for the boat as it is now   *)
(*           (NoRatios when none was computed since the last mutation)     *)
(*   first   the Ratios value of the first Ratios::new since the last      *)
(*           mutation (history)                                            *)
(*   calls   how many times Ratios::new ran since the last mutation        *)
(*   setv    per field, the value of the most recent setter call (history; *)
(*           the value Boat::new gave it before any)                       *)
(*   libm    the platform's pow: how many places its result lies from the  *)
(*           correctly rounded one; fixed by the build                     *)
(*   si      the last unit conversion made with si.rs and convert.rs       *)
(*   test    where the run of boat.rs's category tests stands: the test    *)
(*           function that is running, the case it is at, the test         *)
(*           functions that have finished, and the categories Ratios::new  *)
(*           has yielded in the run for a boat of positive finite          *)
(*           dimensions (history)                                          *)
(***************************************************************************)
VARIABLES boat, ratios, first, calls, setv, libm, si, test

vars == <<boat, ratios, first, calls, setv, libm, si, test>>

\* pow is accurate to within PowUlps places of the correctly rounded result.
PowUlps == 1

\* Ratios::new calls followed between two mutations.
MaxCalls == 2

(***************************************************************************)
(* The f64 literals of the source.                                         *)
(***************************************************************************)
F64_0 == FLit(0, 1)

F64_1 == FLit(1, 1)

F64_3 == FLit(3, 1)

F64_0_01 == FLit(1, 100)

F64_1000 == FLit(1000, 1)

F64_25_4 == FLit(254, 10)

F64_304_8 == FLit(3048, 10)

F64_2_20462 == FLit(220462, 100000)

F64_1016_05 == FLit(101605, 100)

F64_907_185 == FLit(907185, 1000)

F64_0_3048 == FLit(3048, 10000)

\* 2.0 / 3.0, which rustc folds to the f64 nearest the quotient.
F64_2_3 == FDiv(FLit(2, 1), FLit(3, 1))

(***************************************************************************)
(* f64::powf for the two exponents the program uses.  An exactly           *)
(* representable cube is returned exactly (pow errs by less than one       *)
(* place); pow(1, y) is 1.                                                 *)
(***************************************************************************)
\* x^3 for finite non-zero x.
\* The f64 pow returns for the exact value n * 2^e: correctly rounded when n fits
\* the significand, within libm places of that otherwise.
PowCubeOf(s, n, e) ==
    IF BLowZero(n, BBitLen(n) - MantBits) THEN FRoundBig(s, n, e, FALSE)
    ELSE FStep(FRoundBig(s, n, e, FALSE), libm)

PowCube(x) == PowCubeOf(x.s, BCube(x.m), 3 * x.e)

\* x^(2/3) for finite x > 0: the cube root of x^2.  The exponent of the source
\* is the f64 nearest 2/3, which moves the result by less than a place.
\* The shift t that gives the root of x.m^2 * 2^t more bits than a significand
\* and makes 2 * x.e - t a multiple of three.
PowRootShift(x) == 63 + ((2 * x.e - 63) % 3)

\* The f64 pow returns for the cube root of n * 2^(3 * e), r being the floor of
\* the cube root of n.
PowRootOf(n, r, e) == FStep(FRoundBig(0, r, e, BCube(r) # n), libm)

PowRoot(n, e) == PowRootOf(n, BCbrt(n), e)

PowTwoThirds(x) ==
    PowRoot(BShl(BMul(x.m, x.m), PowRootShift(x)), (2 * x.e - PowRootShift(x)) \div 3)

powf(x, y) ==
    IF x.k = "nan" THEN FNaN
    ELSE IF x = F64_1 THEN F64_1
    ELSE IF y = F64_3
         THEN (IF x.k = "fin" THEN PowCube(x) ELSE x)
    ELSE IF x.k = "zero" THEN FZero(0)
    ELSE IF x.k = "inf" THEN FInf(0)
    ELSE IF x.s = 1 THEN FNaN
    ELSE PowTwoThirds(x)

(***************************************************************************)
(* si.rs: Length (metres), Weight (kilograms).                             *)
(***************************************************************************)
Length_from_meter(val) == [val |-> val]

Length_to_meter(self) == self.val

Length_from_millimeter(val) == [val |-> FDiv(val, F64_1000)]

Length_to_millimiter(self) == FMul(self.val, F64_1000)

Length_from_inch(val) == [val |-> FDiv(FMul(val, F64_25_4), F64_1000)]

Length_to_inch(self) == FDiv(FMul(self.val, F64_1000), F64_25_4)

\* Variant: the magnitude in feet kept as it is, without the factor 304.8 / 1000.
Length_from_foot_unscaled(val) == [val |-> val]

Length_from_foot(val) == [val |-> FDiv(FMul(val, F64_304_8), F64_1000)]

\* Variant: the foot rounded to 305 mm.
Length_to_foot_305(self) == FDiv(FMul(self.val, F64_1000), FLit(305, 1))

Length_to_foot(self) == FDiv(FMul(self.val, F64_1000), F64_304_8)

\* Variant: the right operand dropped.
Length_add_left(self, other) == [val |-> self.val]

Length_add(self, other) == [val |-> FAdd(self.val, other.val)]

Length_div(self, other) == [val |-> FDiv(self.val, other.val)]

Weight_from_kilogram(val) == [val |-> val]

Weight_to_kilogram(self) == self.val

Weight_from_gram(val) == [val |-> FDiv(val, F64_1000)]

Weight_to_gram(self) == FMul(self.val, F64_1000)

\* Variant: the factor applied the wrong way round.
Weight_from_pound_times(val) == [val |-> FMul(val, F64_2_20462)]

Weight_from_pound(val) == [val |-> FDiv(val, F64_2_20462)]

Weight_to_pound(self) == FMul(self.val, F64_2_20462)

Weight_from_long_ton(val) == [val |-> FMul(val, F64_1016_05)]

\* Variant: the short ton's factor.
Weight_to_long_ton_short(self) == FDiv(self.val, F64_907_185)

Weight_to_long_ton(self) == FDiv(self.val, F64_1016_05)

Weight_from_short_ton(val) == [val |-> FMul(val, F64_907_185)]

Weight_to_short_ton(self) == FDiv(self.val, F64_907_185)

Weight_add(self, other) == [val |-> FAdd(self.val, other.val)]

Weight_div(self, other) == [val |-> FDiv(self.val, other.val)]

(***************************************************************************)
(* Area (square metres).  boat.rs imports it from si, but si.rs as it      *)
(* stands does not define it: the three functions boat.rs calls follow the *)
(* specification (square metre canonical, 1 ft2 = 0.3048^2 m2).            *)
(***************************************************************************)
Area_from_meter2(val) == [val |-> val]

Area_to_meter2(self) == self.val

Area_from_foot2(val) == [val |-> FMul(FMul(val, F64_0_3048), F64_0_3048)]

(***************************************************************************)
(* convert.rs                                                              *)
(***************************************************************************)
mm_to_inch(value) == FDiv(value, F64_25_4)

foot_inch_to_mm(foot, inch) == FAdd(FMul(foot, F64_304_8), FMul(inch, F64_25_4))

(***************************************************************************)
(* boat.rs: Boat                                                           *)
(***************************************************************************)
F64_4 == FLit(40, 10)

F64_3_8 == FLit(38, 10)

F64_1_2 == FLit(12, 10)

F64_80 == FLit(80, 1)

F64_6 == FLit(6, 1)

Boat_new(name) ==
    [name         |-> name,
     loa          |-> Length_from_meter(F64_4),
     dwl          |-> Length_from_meter(F64_3_8),
     b_max        |-> Length_from_meter(F64_1_2),
     displacement |-> Weight_from_kilogram(F64_80),
     sail_area    |-> Area_from_meter2(F64_6)]

Boat_loa(self) == self.loa

Boat_dwl(self) == self.dwl

Boat_b_max(self) == self.b_max

Boat_displacement(self) == self.displacement

Boat_sail_area(self) == self.sail_area

(***************************************************************************)
(* boat.rs: the ratio calculators                                          *)
(***************************************************************************)
F64_3_65 == FLit(365, 100)

F64_3_30 == FLit(330, 100)

F64_90 == FLit(90, 1)

F64_180 == FLit(180, 1)

F64_270 == FLit(270, 1)

F64_360 == FLit(360, 1)

F64_15 == FLit(15, 1)

F64_20 == FLit(20, 1)

\* Variant: the lowest threshold closed like the others.
BeamCharacter_from_closed(value) ==
    IF FGe(value, F64_4) THEN "Narrow"
    ELSE IF FGe(value, F64_3_65) THEN "ModerateNarrow"
    ELSE IF FGe(value, F64_3_30) THEN "Moderate"
    ELSE IF FGe(value, F64_3) THEN "ModerateBeamy"
    ELSE "Beamy"

\* beam_character: if value >= 4.00 { Narrow } ... else { Beamy }
BeamCharacter_from(value) ==
    IF FGe(value, F64_4) THEN "Narrow"
    ELSE IF FGe(value, F64_3_65) THEN "ModerateNarrow"
    ELSE IF FGe(value, F64_3_30) THEN "Moderate"
    ELSE IF FGt(value, F64_3) THEN "ModerateBeamy"
    ELSE "Beamy"

LengthBeamRatio_of(value) ==
    [value |-> value, beam_character |-> BeamCharacter_from(value)]

LengthBeamRatio_from_boat(b) ==
    LengthBeamRatio_of(FDiv(Length_to_meter(Boat_loa(b)),
                            Length_to_meter(Boat_b_max(b))))

\* Variant: the Heavy band open at 360 like the bands below it.
DisplacementCharacter_from_open(value) ==
    IF FLt(value, F64_90) THEN "Ultralight"
    ELSE IF FLt(value, F64_180) THEN "Light"
    ELSE IF FLt(value, F64_270) THEN "Moderate"
    ELSE IF FLt(value, F64_360) THEN "Heavy"
    ELSE "Ultraheavy"

\* displacement_character: if value < 90.0 { Ultralight } ... else { Ultraheavy }
DisplacementCharacter_from(value) ==
    IF FLt(value, F64_90) THEN "Ultralight"
    ELSE IF FLt(value, F64_180) THEN "Light"
    ELSE IF FLt(value, F64_270) THEN "Moderate"
    ELSE IF FLe(value, F64_360) THEN "Heavy"
    ELSE "Ultraheavy"

DisplacementLengthRatio_of(value) ==
    [value |-> value, displacement_character |-> DisplacementCharacter_from(value)]

DisplacementLengthRatio_from_boat(b) ==
    DisplacementLengthRatio_of(
        FDiv(Weight_to_long_ton(Boat_displacement(b)),
             powf(FMul(Length_to_foot(Boat_dwl(b)), F64_0_01), F64_3)))

\* Variant: the Low band closed at 15.
SailAreaCharacter_from_closed(value) ==
    IF FLe(value, F64_15) THEN "Low"
    ELSE IF FLe(value, F64_20) THEN "Moderate"
    ELSE "High"

\* sail_area_character: if value < 15.0 { Low } ... else { High }
SailAreaCharacter_from(value) ==
    IF FLt(value, F64_15) THEN "Low"
    ELSE IF FLe(value, F64_20) THEN "Moderate"
    ELSE "High"

SailAreaDisplacementRatio_of(value) ==
    [value |-> value, sail_area_character |-> SailAreaCharacter_from(value)]

SailAreaDisplacementRatio_from_boat(b) ==
    SailAreaDisplacementRatio_of(
        FDiv(Area_to_meter2(Boat_sail_area(b)),
             powf(Weight_to_long_ton(Boat_displacement(b)), F64_2_3)))

\* Variant: a calculator that remembers it ran (the sail area / displacement
\* ratio is computed on the first call only).
Ratios_new_once(b) ==
    [length_beam_ratio         |-> LengthBeamRatio_from_boat(b),
     displacement_lenght_ratio |-> DisplacementLengthRatio_from_boat(b),
     sail_area_displacement    |->
         IF calls = 0 THEN SailAreaDisplacementRatio_from_boat(b)
         ELSE [value |-> F64_0, sail_area_character |-> "Low"]]

Ratios_new(b) ==
    [length_beam_ratio         |-> LengthBeamRatio_from_boat(b),
     displacement_lenght_ratio |-> DisplacementLengthRatio_from_boat(b),
     sail_area_displacement    |-> SailAreaDisplacementRatio_from_boat(b)]

NoRatios == [none |-> TRUE]

(***************************************************************************)
(* The values the callers hand to the setters.  The general lifecycle      *)
(* (Spec) draws the values of lib.rs and of the tests and the unvalidated  *)
(* zero; every suite draws the values of one of the repository's tests,    *)
(* and values that put the ratio exactly on each threshold.                *)
(***************************************************************************)
Feet(S) == {Length_from_foot(FLit(c, 100)) : c \in S}

Meters(S) == {Length_from_meter(FLit(c, 100)) : c \in S}

LongTons(S) == {Weight_from_long_ton(FLit(c, 100)) : c \in S}

Pounds(S) == {Weight_from_pound(FLit(c, 1)) : c \in S}

Foot2(S) == {Area_from_foot2(FLit(c, 1)) : c \in S}

Meter2(S) == {Area_from_meter2(FLit(c, 1)) : c \in S}

Names == {"", "Sail cruiser"}

TestNames == {""}

LoaAny == Feet({1300}) \cup Meters({0})

DwlAny == Feet({3200})

BMaxAny == Feet({400}) \cup Meters({0})

DisplacementAny == Pounds({15680})

SailAreaAny == Foot2({704})

LoaBeam ==
    Feet({200, 300, 301, 329, 330, 365, 366, 399, 400, 500})
        \cup Meters({300, 330, 365, 400})

BMaxBeam == Feet({100}) \cup Meters({100})

DwlDisplacement == Feet({3200, 5000})

DisplacementDisplacement ==
    LongTons({200, 400, 700, 900, 1200, 1125, 2250, 3375, 4500})

DisplacementSail == Pounds({15680}) \cup LongTons({100}) \cup {Weight_from_kilogram(F64_0)}

SailAreaSail == Foot2({550, 704, 800}) \cup Meter2({15, 20})

LoaScenario == Feet({3400})

DwlScenario == Feet({3200})

BMaxScenario == Feet({100})

DisplacementScenario == Pounds({15680})

SailAreaScenario == Foot2({704})

(***************************************************************************)
(* Operations on the Boat.                                                 *)
(***************************************************************************)
NoConversion == [dim |-> "none", stage |-> "none"]

\* No test function is running and none has finished.
NoTest == [fn |-> "none", at |-> 0, stage |-> "none", done |-> {}, seen |-> {}]

\* The boat is now b: the Ratios computed for what it was are stale.
Fresh(b) ==
    /\ boat' = b
    /\ ratios' = NoRatios
    /\ first' = NoRatios
    /\ calls' = 0
    /\ UNCHANGED <<libm, si, test>>

\* let mut boat = Boat::new(name);
BoatNew(S) ==
    \E name \in S :
        /\ Fresh(Boat_new(name))
        /\ setv' = boat'

\* Variant: a setter that stores the opposite of the value it is given.
set_loa_negated(S) ==
    \E val \in S :
        /\ Fresh([boat EXCEPT !.loa = [val |-> FNeg(val.val)]])
        /\ setv' = [setv EXCEPT !.loa = val]

set_loa(S) ==
    \E val \in S :
        /\ Fresh([boat EXCEPT !.loa = val])
        /\ setv' = [setv EXCEPT !.loa = val]

set_dwl(S) ==
    \E val \in S :
        /\ Fresh([boat EXCEPT !.dwl = val])
        /\ setv' = [setv EXCEPT !.dwl = val]

set_b_max(S) ==
    \E val \in S :
        /\ Fresh([boat EXCEPT !.b_max = val])
        /\ setv' = [setv EXCEPT !.b_max = val]

set_displacement(S) ==
    \E val \in S :
        /\ Fresh([boat EXCEPT !.displacement = val])
        /\ setv' = [setv EXCEPT !.displacement = val]

set_sail_area(S) ==
    \E val \in S :
        /\ Fresh([boat EXCEPT !.sail_area = val])
        /\ setv' = [setv EXCEPT !.sail_area = val]

\* Variant: a Ratios::new that takes the boat mutably and resets it.
RatiosNew_resetting ==
    /\ calls < MaxCalls
    /\ ratios' = Ratios_new(boat)
    /\ first' = IF calls = 0 THEN ratios' ELSE first
    /\ calls' = calls + 1
    /\ boat' = Boat_new(boat.name)
    /\ UNCHANGED <<setv, libm, si, test>>

\* let ratios = Ratios::new(&boat);
RatiosNew ==
    /\ calls < MaxCalls
    /\ ratios' = Ratios_new(boat)
    /\ first' = IF calls = 0 THEN ratios' ELSE first
    /\ calls' = calls + 1
    /\ UNCHANGED <<boat, setv, libm, si, test>>

\* A boat as Boat::new leaves it, under one of the names S, on a platform whose
\* pow is within PowUlps places.
InitNamed(S) ==
    /\ boat \in {Boat_new(name) : name \in S}
    /\ ratios = NoRatios
    /\ first = NoRatios
    /\ calls = 0
    /\ setv = boat
    /\ libm \in -PowUlps..PowUlps
    /\ si = NoConversion
    /\ test = NoTest

Init == InitNamed(Names)

\* The tests of boat.rs start from Boat::new("").
InitTest == InitNamed(TestNames)

Next ==
    \/ BoatNew(Names)
    \/ set_loa(LoaAny)
    \/ set_dwl(DwlAny)
    \/ set_b_max(BMaxAny)
    \/ set_displacement(DisplacementAny)
    \/ set_sail_area(SailAreaAny)
    \/ RatiosNew

Spec == Init /\ [][Next]_vars

\* test::beam_character
NextBeam ==
    \/ BoatNew(TestNames)
    \/ set_b_max(BMaxBeam)
    \/ set_loa(LoaBeam)
    \/ RatiosNew

SpecBeam == InitTest /\ [][NextBeam]_vars

\* test::displacement_character
NextDisplacement ==
    \/ BoatNew(TestNames)
    \/ set_dwl(DwlDisplacement)
    \/ set_displacement(DisplacementDisplacement)
    \/ RatiosNew

SpecDisplacement == InitTest /\ [][NextDisplacement]_vars

\* test::sail_area_character
NextSail ==
    \/ BoatNew(TestNames)
    \/ set_displacement(DisplacementSail)
    \/ set_sail_area(SailAreaSail)
    \/ RatiosNew

SpecSail == InitTest /\ [][NextSail]_vars

\* test::displacement_length_ratio, test::sail_area_displacement
NextScenario ==
    \/ BoatNew(TestNames)
    \/ set_loa(LoaScenario)
    \/ set_dwl(DwlScenario)
    \/ set_b_max(BMaxScenario)
    \/ set_displacement(DisplacementScenario)
    \/ set_sail_area(SailAreaScenario)
    \/ RatiosNew

SpecScenario == InitTest /\ [][NextScenario]_vars

(***************************************************************************)
(* si.rs and convert.rs as pure functions: a magnitude is converted into a *)
(* Length or a Weight from one unit and read back in the same unit; a      *)
(* count of feet and one of inches are added as Lengths and read in        *)
(* millimetres, and converted by convert::foot_inch_to_mm.                 *)
(***************************************************************************)
MaxMagnitude == 100

MaxFeet == 15

MaxInches == 11

LengthUnits == {"meter", "millimeter", "inch", "foot"}

WeightUnits == {"kilogram", "gram", "pound", "long_ton", "short_ton"}

\* Magnitudes in hundredths, 0.00 to MaxMagnitude / 100.
Magnitudes == {FLit(c, 100) : c \in 0..MaxMagnitude}

FeetCounts == {FLit(f, 1) : f \in 0..MaxFeet}

InchCounts == {FLit(i, 1) : i \in 0..MaxInches}

Length_from(unit, val) ==
    CASE unit = "meter"      -> Length_from_meter(val)
      [] unit = "millimeter" -> Length_from_millimeter(val)
      [] unit = "inch"       -> Length_from_inch(val)
      [] unit = "foot"       -> Length_from_foot(val)

Length_to(unit, self) ==
    CASE unit = "meter"      -> Length_to_meter(self)
      [] unit = "millimeter" -> Length_to_millimiter(self)
      [] unit = "inch"       -> Length_to_inch(self)
      [] unit = "foot"       -> Length_to_foot(self)

Weight_from(unit, val) ==
    CASE unit = "kilogram"  -> Weight_from_kilogram(val)
      [] unit = "gram"      -> Weight_from_gram(val)
      [] unit = "pound"     -> Weight_from_pound(val)
      [] unit = "long_ton"  -> Weight_from_long_ton(val)
      [] unit = "short_ton" -> Weight_from_short_ton(val)

Weight_to(unit, self) ==
    CASE unit = "kilogram"  -> Weight_to_kilogram(self)
      [] unit = "gram"      -> Weight_to_gram(self)
      [] unit = "pound"     -> Weight_to_pound(self)
      [] unit = "long_ton"  -> Weight_to_long_ton(self)
      [] unit = "short_ton" -> Weight_to_short_ton(self)

Arguments ==
    {[dim |-> "Length", stage |-> "arg", unit |-> u, x |-> x] :
         u \in LengthUnits, x \in Magnitudes}
        \cup {[dim |-> "Weight", stage |-> "arg", unit |-> u, x |-> x] :
                  u \in WeightUnits, x \in Magnitudes}
        \cup {[dim |-> "FootInch", stage |-> "arg", foot |-> f, inch |-> i] :
                  f \in FeetCounts, i \in InchCounts}

Frame == UNCHANGED <<boat, ratios, first, calls, setv, libm, test>>

\* let q = Length::from_<unit>(x);
LengthFrom ==
    /\ si.dim = "Length" /\ si.stage = "arg"
    /\ si' = [dim |-> "Length", stage |-> "from", unit |-> si.unit, x |-> si.x,
              q |-> Length_from(si.unit, si.x)]
    /\ Frame

\* q.to_<unit>()
LengthTo ==
    /\ si.dim = "Length" /\ si.stage = "from"
    /\ si' = [dim |-> "Length", stage |-> "to", unit |-> si.unit, x |-> si.x,
              q |-> si.q, out |-> Length_to(si.unit, si.q)]
    /\ Frame

\* let q = Weight::from_<unit>(x);
WeightFrom ==
    /\ si.dim = "Weight" /\ si.stage = "arg"
    /\ si' = [dim |-> "Weight", stage |-> "from", unit |-> si.unit, x |-> si.x,
              q |-> Weight_from(si.unit, si.x)]
    /\ Frame

\* q.to_<unit>()
WeightTo ==
    /\ si.dim = "Weight" /\ si.stage = "from"
    /\ si' = [dim |-> "Weight", stage |-> "to", unit |-> si.unit, x |-> si.x,
              q |-> si.q, out |-> Weight_to(si.unit, si.q)]
    /\ Frame

\* The record of a sum loa of foot feet and inch inches, read in millimetres.
FootInchSum(foot, inch, loa) ==
    [dim |-> "FootInch", stage |-> "add", foot |-> foot, inch |-> inch,
     loa |-> loa, out |-> Length_to_millimiter(loa)]

\* let loa = Length::from_foot(f) + Length::from_inch(i); loa.to_millimiter()
LengthAdd ==
    /\ si.dim = "FootInch" /\ si.stage = "arg"
    /\ si' = FootInchSum(si.foot, si.inch,
                          Length_add(Length_from_foot(si.foot), Length_from_inch(si.inch)))
    /\ Frame

\* convert::foot_inch_to_mm(f, i)
FootInchToMm ==
    /\ si.dim = "FootInch" /\ si.stage = "add"
    /\ si' = [dim |-> "FootInch", stage |-> "mm", foot |-> si.foot,
              inch |-> si.inch, loa |-> si.loa, out |-> si.out,
              mm |-> foot_inch_to_mm(si.foot, si.inch)]
    /\ Frame

InitSI ==
    /\ boat = Boat_new("")
    /\ ratios = NoRatios
    /\ first = NoRatios
    /\ calls = 0
    /\ setv = boat
    /\ libm = 0
    /\ si \in Arguments
    /\ test = NoTest

NextSI ==
    \/ LengthFrom
    \/ LengthTo
    \/ WeightFrom
    \/ WeightTo
    \/ LengthAdd
    \/ FootInchToMm

SpecSI == InitSI /\ [][NextSI]_vars

(***************************************************************************)
(* Properties.                                                             *)
(***************************************************************************)
\* ratios holds the Ratios computed from the boat as it is now.
Computed == calls > 0

\* The expected beam character of test::beam_character for each LOA in feet,
\* the beam being one foot.
BeamCharacterTest ==
    {[loa |-> Length_from_foot(FLit(p[1], 100)), expected |-> p[2]] :
         p \in {<<200, "Beamy">>, <<300, "Beamy">>,
                <<301, "ModerateBeamy">>, <<329, "ModerateBeamy">>,
                <<330, "Moderate">>, <<365, "Moderate">>,
                <<366, "ModerateNarrow">>, <<399, "ModerateNarrow">>,
                <<400, "Narrow">>, <<500, "Narrow">>}}

\* The expected displacement character of test::displacement_character for
\* each displacement in long tons, the DWL being 32 feet.
DisplacementCharacterTest ==
    {[displacement |-> Weight_from_long_ton(FLit(p[1], 1)), expected |-> p[2]] :
         p \in {<<2, "Ultralight">>, <<4, "Light">>, <<7, "Moderate">>,
                <<9, "Heavy">>, <<12, "Ultraheavy">>}}

\* The expected sail area character of test::sail_area_character for each sail
\* area in square feet, the displacement being 15680 lb.
SailAreaCharacterTest ==
    {[sail_area |-> Area_from_foot2(FLit(p[1], 1)), expected |-> p[2]] :
         p \in {<<550, "Low">>, <<704, "Moderate">>, <<800, "High">>}}

Foot_1 == Length_from_foot(FLit(100, 100))

Foot_32 == Length_from_foot(FLit(32, 1))

Foot_34 == Length_from_foot(FLit(34, 1))

Pound_15680 == Weight_from_pound(FLit(15680, 1))

Foot2_704 == Area_from_foot2(FLit(704, 1))

F64_214 == FLit(214, 1)

F64_18 == FLit(18, 1)

\* C1: whatever the boat, the L/B value is loa.to_meter() / b_max.to_meter()
\* and the beam character is Narrow exactly when value >= 4.00, ModerateNarrow
\* exactly when 3.65 <= value < 4.00, Moderate exactly when 3.30 <= value <
\* 3.65, ModerateBeamy exactly when 3.00 < value < 3.30 and Beamy in every
\* other case, a value of exactly 3.00 among them.
C1_LengthBeamBands ==
    Computed =>
        LET value == ratios.length_beam_ratio.value
            c     == ratios.length_beam_ratio.beam_character
        IN  /\ value = FDiv(Length_to_meter(boat.loa), Length_to_meter(boat.b_max))
            /\ (c = "Narrow") <=> FGe(value, F64_4)
            /\ (c = "ModerateNarrow") <=> (FGe(value, F64_3_65) /\ FLt(value, F64_4))
            /\ (c = "Moderate") <=> (FGe(value, F64_3_30) /\ FLt(value, F64_3_65))
            /\ (c = "ModerateBeamy") <=> (FGt(value, F64_3) /\ FLt(value, F64_3_30))
            /\ (c = "Beamy") <=> ~FGt(value, F64_3)
            /\ c \in {"Narrow", "ModerateNarrow", "Moderate", "ModerateBeamy", "Beamy"}

\* C1 witness: a ratio of exactly 3.00 was computed and classified Beamy.
C1_ExactlyThreeIsBeamy ==
    /\ Computed
    /\ ratios.length_beam_ratio.value = F64_3
    /\ ratios.length_beam_ratio.beam_character = "Beamy"

\* C2: whatever the boat, the D/L value is displacement.to_long_ton() /
\* (dwl.to_foot() * 0.01)^3 and the displacement character is Ultralight
\* exactly when value < 90, Light when 90 <= value < 180, Moderate when 180 <=
\* value < 270, Heavy when 270 <= value <= 360 and Ultraheavy in every other
\* case; with a DWL of 32 ft, 2, 4, 7, 9 and 12 long tons are Ultralight, Light,
\* Moderate, Heavy and Ultraheavy.
C2_DisplacementLengthBands ==
    Computed =>
        LET value == ratios.displacement_lenght_ratio.value
            c     == ratios.displacement_lenght_ratio.displacement_character
        IN  /\ value = FDiv(Weight_to_long_ton(boat.displacement),
                            powf(FMul(Length_to_foot(boat.dwl), F64_0_01), F64_3))
            /\ (c = "Ultralight") <=> FLt(value, F64_90)
            /\ (c = "Light") <=> (FGe(value, F64_90) /\ FLt(value, F64_180))
            /\ (c = "Moderate") <=> (FGe(value, F64_180) /\ FLt(value, F64_270))
            /\ (c = "Heavy") <=> (FGe(value, F64_270) /\ FLe(value, F64_360))
            /\ (c = "Ultraheavy") <=> ~FLe(value, F64_360)
            /\ \A t \in DisplacementCharacterTest :
                   (boat.dwl = Foot_32 /\ boat.displacement = t.displacement)
                       => c = t.expected

\* C2 witness: a ratio of exactly 360 was computed and classified Heavy.
C2_Exactly360IsHeavy ==
    /\ Computed
    /\ ratios.displacement_lenght_ratio.value = F64_360
    /\ ratios.displacement_lenght_ratio.displacement_character = "Heavy"

\* C3: whatever the boat, the SA/D value is sail_area.to_meter2() /
\* displacement.to_long_ton()^(2/3) and the sail area character is Low exactly
\* when value < 15.0, Moderate when 15.0 <= value <= 20.0 and High in every
\* other case; with a displacement of 15680 lb, 550, 704 and 800 ft2 are Low,
\* Moderate and High.
C3_SailAreaDisplacementBands ==
    Computed =>
        LET value == ratios.sail_area_displacement.value
            c     == ratios.sail_area_displacement.sail_area_character
        IN  /\ value = FDiv(Area_to_meter2(boat.sail_area),
                            powf(Weight_to_long_ton(boat.displacement), F64_2_3))
            /\ (c = "Low") <=> FLt(value, F64_15)
            /\ (c = "Moderate") <=> (FGe(value, F64_15) /\ FLe(value, F64_20))
            /\ (c = "High") <=> ~FLe(value, F64_20)
            /\ \A t \in SailAreaCharacterTest :
                   (boat.displacement = Pound_15680 /\ boat.sail_area = t.sail_area)
                       => c = t.expected

\* C3 witness: a ratio of exactly 15.0 was computed and classified Moderate.
C3_Exactly15IsModerate ==
    /\ Computed
    /\ ratios.sail_area_displacement.value = F64_15
    /\ ratios.sail_area_displacement.sail_area_character = "Moderate"

\* C4: with a beam of one foot, an LOA of 2.00 or 3.00 ft is Beamy, 3.01 or 3.29
\* ft ModerateBeamy, 3.30 or 3.65 ft Moderate, 3.66 or 3.99 ft ModerateNarrow,
\* 4.00 or 5.00 ft Narrow.
C4_BeamCharacterTest ==
    \A t \in BeamCharacterTest :
        (Computed /\ boat.b_max = Foot_1 /\ boat.loa = t.loa)
            => ratios.length_beam_ratio.beam_character = t.expected

\* C4 witness: 3.65 ft over 1 ft was computed, gave a ratio below the f64 3.65
\* and was classified Moderate.
C4_Foot365IsModerate ==
    /\ Computed
    /\ boat.b_max = Foot_1
    /\ boat.loa = Length_from_foot(F64_3_65)
    /\ FLt(ratios.length_beam_ratio.value, F64_3_65)
    /\ ratios.length_beam_ratio.beam_character = "Moderate"

\* C5: for loa 34 ft, dwl 32 ft, b_max 1 ft and displacement 15680 lb the D/L
\* value rounds to 214.
C5_DisplacementLengthRounds214 ==
    (/\ Computed
     /\ boat.loa = Foot_34 /\ boat.dwl = Foot_32 /\ boat.b_max = Foot_1
     /\ boat.displacement = Pound_15680)
        => F64_round(ratios.displacement_lenght_ratio.value) = F64_214

\* C5 witness: the ratios of that boat were computed, the D/L value is no
\* integer and lies between 213.5 and 214.
C5_ScenarioComputed ==
    /\ Computed
    /\ boat.loa = Foot_34 /\ boat.dwl = Foot_32 /\ boat.b_max = Foot_1
    /\ boat.displacement = Pound_15680
    /\ FGt(ratios.displacement_lenght_ratio.value, FLit(2135, 10))
    /\ FLt(ratios.displacement_lenght_ratio.value, F64_214)

\* C6: for displacement 15680 lb and sail area 704 ft2 the SA/D value rounds
\* to 18 and the sail area character is Moderate.
C6_SailAreaDisplacementRounds18 ==
    (Computed /\ boat.displacement = Pound_15680 /\ boat.sail_area = Foot2_704)
        => /\ F64_round(ratios.sail_area_displacement.value) = F64_18
           /\ ratios.sail_area_displacement.sail_area_character = "Moderate"

\* C6 witness: the ratios of that boat were computed and the SA/D value lies
\* between 17.5 and 18.
C6_ScenarioComputed ==
    /\ Computed
    /\ boat.displacement = Pound_15680 /\ boat.sail_area = Foot2_704
    /\ FGt(ratios.sail_area_displacement.value, FLit(175, 10))
    /\ FLt(ratios.sail_area_displacement.value, F64_18)

\* |x|
F64_abs(x) == IF x.k = "nan" THEN x ELSE [x EXCEPT !.s = 0]

\* 2^-51, twice f64::EPSILON: the four roundings of a conversion and its inverse
\* move the magnitude by at most 2^-53 of itself each.
Tolerance == FFin(0, BShl(<<1>>, MantBits - 1), -51 - (MantBits - 1))

\* a lies within Tolerance of b, relative to b.
Near(a, b) ==
    FLe(F64_abs(FAdd(a, FNeg(b))), FMul(F64_abs(b), Tolerance))

\* The canonical magnitudes si.rs's tests expect of one unit.
UnitFactorTest ==
    {[dim |-> "Length", unit |-> "foot", val |-> FLit(3048, 10000)],
     [dim |-> "Length", unit |-> "inch", val |-> FLit(254, 10000)],
     [dim |-> "Length", unit |-> "millimeter", val |-> FLit(1, 1000)],
     [dim |-> "Length", unit |-> "meter", val |-> FLit(1, 1)],
     [dim |-> "Weight", unit |-> "kilogram", val |-> FLit(1, 1)],
     [dim |-> "Weight", unit |-> "gram", val |-> FLit(1, 1000)],
     [dim |-> "Weight", unit |-> "long_ton", val |-> FLit(101605, 100)],
     [dim |-> "Weight", unit |-> "short_ton", val |-> FLit(907185, 1000)]}

F64_15_ft == FLit(15, 1)

F64_4_in == FLit(4, 1)

F64_4572_plus_101_6 == FAdd(FLit(4572, 1), FLit(1016, 10))

\* A magnitude was converted from a unit and read back in it.
RoundTripDone == si.dim \in {"Length", "Weight"} /\ si.stage = "to"

\* C7 as stated: for every unit and magnitude x, from_<unit>(x).to_<unit>()
\* equals x.
C7_RoundTripExact == RoundTripDone => si.out = si.x

\* C7: for every unit and magnitude x, from_<unit>(x).to_<unit>() equals x for
\* the canonical units (meter, kilogram) and lies within 2^-51 of x, relative to
\* x, for the others; one foot, inch, millimeter, gram, long ton and short ton
\* are 0.3048 m, 0.0254 m, 0.001 m, 0.001 kg, 1016.05 kg and 907.185 kg.
C7_RoundTripNear ==
    RoundTripDone =>
        /\ si.unit \in {"meter", "kilogram"} => si.out = si.x
        /\ Near(si.out, si.x)
        /\ \A t \in UnitFactorTest :
               (si.dim = t.dim /\ si.unit = t.unit /\ si.x = F64_1) => si.q.val = t.val

\* C7 witness: a magnitude in feet came back changed, within the tolerance.
C7_FootComesBackNear ==
    /\ RoundTripDone
    /\ si.unit = "foot"
    /\ si.out # si.x
    /\ Near(si.out, si.x)

\* Feet and inches were added as Lengths, read in millimetres and converted by
\* convert::foot_inch_to_mm.
FootInchDone == si.dim = "FootInch" /\ si.stage = "mm"

\* C8 as stated: for every feet count f and inch count i,
\* (from_foot(f) + from_inch(i)).to_millimiter() equals f * 304.8 + i * 25.4,
\* the result of foot_inch_to_mm(f, i).
C8_AdditiveExact == FootInchDone => si.out = si.mm

\* C8: adding two Lengths sums their magnitudes in metres; for every feet count
\* f and inch count i, foot_inch_to_mm(f, i) is f * 304.8 + i * 25.4 and
\* (from_foot(f) + from_inch(i)).to_millimiter() lies within 2^-51 of it,
\* relative to it; for 15 ft 4 in both are 4572.0 + 101.6.
C8_AdditiveNear ==
    FootInchDone =>
        /\ si.loa.val = FAdd(Length_from_foot(si.foot).val, Length_from_inch(si.inch).val)
        /\ si.mm = FAdd(FMul(si.foot, F64_304_8), FMul(si.inch, F64_25_4))
        /\ Near(si.out, si.mm)
        /\ (si.foot = F64_15_ft /\ si.inch = F64_4_in)
               => (si.out = F64_4572_plus_101_6 /\ si.mm = F64_4572_plus_101_6)

\* C8 witness: a sum of feet and inches read in millimetres differs from
\* foot_inch_to_mm's result, within the tolerance.
C8_SumDiffersNear ==
    /\ FootInchDone
    /\ si.out # si.mm
    /\ Near(si.out, si.mm)

C10_BoatAsSet ==
    /\ boat.name = setv.name
    /\ Boat_loa(boat) = setv.loa
    /\ Boat_dwl(boat) = setv.dwl
    /\ Boat_b_max(boat) = setv.b_max
    /\ Boat_displacement(boat) = setv.displacement
    /\ Boat_sail_area(boat) = setv.sail_area

\* C10 witness: ratios were computed for a boat whose LOA and beam setters had
\* run, and the getters return what the setters were given.
C10_ComputedAfterSetters ==
    /\ Computed
    /\ Boat_loa(boat) = Length_from_foot(FLit(13, 1))
    /\ Boat_b_max(boat) = Length_from_foot(FLit(4, 1))
    /\ setv.loa = Length_from_foot(FLit(13, 1))


(***************************************************************************)
(* The run of boat.rs's category tests: beam_character,                    *)
(* displacement_character and sail_area_character, in any order.  A test   *)
(* function builds its boat with Boat::new("") and one setter call, then   *)
(* for each of its cases calls the setter of the field it varies and       *)
(* Ratios::new.                                                            *)
(***************************************************************************)
TestFns == {"beam_character", "displacement_character", "sail_area_character"}

\* The field a test function varies.
TestField(fn) ==
    CASE fn = "beam_character"         -> "loa"
      [] fn = "displacement_character" -> "displacement"
      [] fn = "sail_area_character"    -> "sail_area"

\* The arguments of the setter calls of a test function, in the order of its
\* cases.
TestCases(fn) ==
    CASE fn = "beam_character" ->
             [i \in 1..10 |->
                  Length_from_foot(
                      FLit(<<200, 300, 301, 329, 330, 365, 366, 399, 400, 500>>[i], 100))]
      [] fn = "displacement_character" ->
             [i \in 1..5 |-> Weight_from_long_ton(FLit(<<2, 4, 7, 9, 12>>[i], 1))]
      [] fn = "sail_area_character" ->
             [i \in 1..3 |-> Area_from_foot2(FLit(<<550, 704, 800>>[i], 1))]

\* let mut boat = Boat::new("".to_string()); and the setter call that follows it.
TestFixture(fn) ==
    CASE fn = "beam_character" ->
             [Boat_new("") EXCEPT !.b_max = Length_from_foot(FLit(100, 100))]
      [] fn = "displacement_character" ->
             [Boat_new("") EXCEPT !.dwl = Length_from_foot(FLit(32, 1))]
      [] fn = "sail_area_character" ->
             [Boat_new("") EXCEPT !.displacement = Weight_from_pound(FLit(15680, 1))]

\* x is a finite f64 above zero.
F64_positive(x) == x.k = "fin" /\ x.s = 0

\* Every dimension of the boat is positive and finite.
PositiveFinite(b) ==
    /\ F64_positive(Length_to_meter(Boat_loa(b)))
    /\ F64_positive(Length_to_meter(Boat_dwl(b)))
    /\ F64_positive(Length_to_meter(Boat_b_max(b)))
    /\ F64_positive(Weight_to_kilogram(Boat_displacement(b)))
    /\ F64_positive(Area_to_meter2(Boat_sail_area(b)))

\* The three categories of a Ratios value, each with the ratio it belongs to.
Categories(r) ==
    {<<"length_beam_ratio", r.length_beam_ratio.beam_character>>,
     <<"displacement_lenght_ratio", r.displacement_lenght_ratio.displacement_character>>,
     <<"sail_area_displacement", r.sail_area_displacement.sail_area_character>>}

\* The test function after Ratios::new gave r for the boat b at fn's case at: the
\* same at its next case, or none when fn has run its last case.
TestAfter(t, cases, b, r) ==
    IF t.at < cases
    THEN [t EXCEPT !.at = t.at + 1, !.stage = "set",
                   !.seen = IF PositiveFinite(b) THEN t.seen \cup Categories(r) ELSE t.seen]
    ELSE [fn |-> "none", at |-> 0, stage |-> "none", done |-> t.done \cup {t.fn},
          seen |-> IF PositiveFinite(b) THEN t.seen \cup Categories(r) ELSE t.seen]

\* A test function that has not run yet starts.
TestStart ==
    /\ test.fn = "none"
    /\ \E fn \in TestFns \ test.done :
           /\ boat' = TestFixture(fn)
           /\ test' = [test EXCEPT !.fn = fn, !.at = 1, !.stage = "set"]
    /\ setv' = boat'
    /\ ratios' = NoRatios
    /\ first' = NoRatios
    /\ calls' = 0
    /\ UNCHANGED <<libm, si>>

\* boat.set_<field>(<argument of the case>);
TestSet ==
    /\ test.stage = "set"
    /\ boat' = [boat EXCEPT ![TestField(test.fn)] = TestCases(test.fn)[test.at]]
    /\ setv' = [setv EXCEPT ![TestField(test.fn)] = TestCases(test.fn)[test.at]]
    /\ ratios' = NoRatios
    /\ first' = NoRatios
    /\ calls' = 0
    /\ test' = [test EXCEPT !.stage = "new"]
    /\ UNCHANGED <<libm, si>>

\* Ratios::new(&boat), whose category the case asserts.
TestRatios ==
    /\ test.stage = "new"
    /\ ratios' = Ratios_new(boat)
    /\ first' = ratios'
    /\ calls' = 1
    /\ test' = TestAfter(test, Len(TestCases(test.fn)), boat, ratios')
    /\ UNCHANGED <<boat, setv, libm, si>>

NextTests ==
    \/ TestStart
    \/ TestSet
    \/ TestRatios

SpecTests == InitTest /\ [][NextTests]_vars

BeamCharacters == {"Narrow", "ModerateNarrow", "Moderate", "ModerateBeamy", "Beamy"}

DisplacementCharacters == {"Ultralight", "Light", "Moderate", "Heavy", "Ultraheavy"}

SailAreaCharacters == {"Low", "Moderate", "High"}

\* C11: once a test function has run, each category of the ratio it tests has
\* been yielded by Ratios::new for a boat built from Boat::new by setter calls
\* with positive finite dimensions: the 5 beam characters, the 5 displacement
\* characters, the 3 sail area characters; a category, once yielded, was yielded.
C11_NoCategoryUnreachable ==
    /\ "beam_character" \in test.done
           => \A c \in BeamCharacters : <<"length_beam_ratio", c>> \in test.seen
    /\ "displacement_character" \in test.done
           => \A c \in DisplacementCharacters :
                  <<"displacement_lenght_ratio", c>> \in test.seen
    /\ "sail_area_character" \in test.done
           => \A c \in SailAreaCharacters : <<"sail_area_displacement", c>> \in test.seen
    /\ (Computed /\ PositiveFinite(boat) /\ test.stage # "new")
           => Categories(ratios) \subseteq test.seen

\* C11 witness: the three test functions have run and the 13 categories have
\* been yielded.
C11_AllCategoriesYielded ==
    /\ test.done = TestFns
    /\ Cardinality(test.seen) = 13
    /\ {p[2] : p \in {q \in test.seen : q[1] = "sail_area_displacement"}}
           = SailAreaCharacters

(***************************************************************************)
(* The setters alone, with the arguments a caller is free to give them:    *)
(* the setters take any Length, Weight or Area, a zero or a negative one   *)
(* included.                                                               *)
(***************************************************************************)
LoaUnvalidated == Feet({1300}) \cup Meters({0, -100})

DwlUnvalidated == Meters({0, -100})

BMaxUnvalidated == Meters({0, -100})

DisplacementUnvalidated == {Weight_from_kilogram(FLit(c, 1)) : c \in {0, -1}}

SailAreaUnvalidated == Meter2({0, -1})

NextSetters ==
    \/ BoatNew(Names)
    \/ set_loa(LoaUnvalidated)
    \/ set_dwl(DwlUnvalidated)
    \/ set_b_max(BMaxUnvalidated)
    \/ set_displacement(DisplacementUnvalidated)
    \/ set_sail_area(SailAreaUnvalidated)

SpecSetters == Init /\ [][NextSetters]_vars

\* x is an f64 that is zero or above (-0.0 included).
F64_non_negative(x) == FGe(x, F64_0)

\* The five dimensions of a boat, as magnitudes in their canonical units.
Dimensions(b) ==
    <<Length_to_meter(Boat_loa(b)), Length_to_meter(Boat_dwl(b)),
      Length_to_meter(Boat_b_max(b)), Weight_to_kilogram(Boat_displacement(b)),
      Area_to_meter2(Boat_sail_area(b))>>

\* C12 as stated: in every state reachable by Boat::new and any sequence of
\* setter calls, all five dimensions are non-negative.
C12_AllNonNegative ==
    \A i \in 1..5 : F64_non_negative(Dimensions(boat)[i])

\* C12: Boat::new gives LOA 4.0 m, DWL 3.8 m, beam 1.2 m, displacement 80 kg and
\* sail area 6 m2, all positive; after any sequence of setter calls a dimension
\* is non-negative exactly when the value last given for it was, so all five
\* are non-negative when every value last given was.
C12_NonNegativeAsGiven ==
    /\ \A name \in Names :
           Dimensions(Boat_new(name)) = <<F64_4, F64_3_8, F64_1_2, F64_80, F64_6>>
    /\ \A i \in 1..5 : F64_positive(<<F64_4, F64_3_8, F64_1_2, F64_80, F64_6>>[i])
    /\ \A i \in 1..5 :
           F64_non_negative(Dimensions(boat)[i]) <=> F64_non_negative(Dimensions(setv)[i])
    /\ (\A i \in 1..5 : F64_non_negative(Dimensions(setv)[i])) => C12_AllNonNegative

\* C12 witness: setters were given non-negative values, a positive LOA and a
\* zero beam, and every dimension is non-negative.
C12_SetNonNegative ==
    /\ Boat_loa(boat) = Length_from_foot(FLit(13, 1))
    /\ Boat_b_max(boat) = Length_from_meter(F64_0)
    /\ \A i \in 1..5 : F64_non_negative(Dimensions(setv)[i])
    /\ \A i \in 1..5 : F64_non_negative(Dimensions(boat)[i])

(***************************************************************************)
(* The operators of si.rs.  An expression a + b or a / b between two       *)
(* quantities is first type-checked: rustc resolves the operator to an     *)
(* impl of std::ops::Add or std::ops::Div for the left operand's type      *)
(* whose right-hand side is the right operand's type, and rejects the      *)
(* program when there is none.  Only a program that type-checks runs.      *)
(***************************************************************************)
MaxOperand == 3

Traits == {"Add", "Div"}

Quantities == {"Length", "Weight"}

\* Variant: an impl Add<Weight> for Length besides the four of si.rs.
Impls_mixed ==
    {[trait |-> "Add", self |-> "Length", rhs |-> "Length", output |-> "Length"],
     [trait |-> "Div", self |-> "Length", rhs |-> "Length", output |-> "Length"],
     [trait |-> "Add", self |-> "Weight", rhs |-> "Weight", output |-> "Weight"],
     [trait |-> "Div", self |-> "Weight", rhs |-> "Weight", output |-> "Weight"],
     [trait |-> "Add", self |-> "Length", rhs |-> "Weight", output |-> "Length"]}

\* impl Add for Length, impl Div for Length, impl Add for Weight, impl Div for
\* Weight: the right-hand side defaults to Self, type Output = Self.
Impls ==
    {[trait |-> "Add", self |-> "Length", rhs |-> "Length", output |-> "Length"],
     [trait |-> "Div", self |-> "Length", rhs |-> "Length", output |-> "Length"],
     [trait |-> "Add", self |-> "Weight", rhs |-> "Weight", output |-> "Weight"],
     [trait |-> "Div", self |-> "Weight", rhs |-> "Weight", output |-> "Weight"]}

\* The impls an operator between a left and a right operand type resolves to.
Resolve(trait, lhs, rhs) ==
    {i \in Impls : i.trait = trait /\ i.self = lhs /\ i.rhs = rhs}

\* The method of the impl of a trait for a type.
Operator_call(trait, self_type, a, b) ==
    CASE trait = "Add" /\ self_type = "Length" -> Length_add(a, b)
      [] trait = "Div" /\ self_type = "Length" -> Length_div(a, b)
      [] trait = "Add" /\ self_type = "Weight" -> Weight_add(a, b)
      [] trait = "Div" /\ self_type = "Weight" -> Weight_div(a, b)

OperandCounts == {FLit(c, 1) : c \in 0..MaxOperand}

\* The expressions: an operator, the types of its operands, their magnitudes in
\* the canonical unit.
Expressions ==
    {[dim |-> "Operator", stage |-> "source", trait |-> t, lhs |-> l, rhs |-> r,
      x |-> x, y |-> y] :
         t \in Traits, l \in Quantities, r \in Quantities,
         x \in OperandCounts, y \in OperandCounts}

\* rustc rejects the expression: no impl of the operator for these types.
TypeReject ==
    /\ si.dim = "Operator" /\ si.stage = "source"
    /\ Resolve(si.trait, si.lhs, si.rhs) = {}
    /\ si' = [si EXCEPT !.stage = "rejected"]
    /\ Frame

\* rustc accepts the expression.
TypeAccept ==
    /\ si.dim = "Operator" /\ si.stage = "source"
    /\ Resolve(si.trait, si.lhs, si.rhs) # {}
    /\ si' = [si EXCEPT !.stage = "checked"]
    /\ Frame

\* The compiled expression is evaluated.
OperatorApply ==
    /\ si.dim = "Operator" /\ si.stage = "checked"
    /\ si' = [dim |-> "Operator", stage |-> "value", trait |-> si.trait,
              lhs |-> si.lhs, rhs |-> si.rhs, x |-> si.x, y |-> si.y,
              out |-> Operator_call(si.trait, si.lhs, [val |-> si.x], [val |-> si.y])]
    /\ Frame

InitOperators ==
    /\ boat = Boat_new("")
    /\ ratios = NoRatios
    /\ first = NoRatios
    /\ calls = 0
    /\ setv = boat
    /\ libm = 0
    /\ si \in Expressions
    /\ test = NoTest

NextOperators ==
    \/ TypeReject
    \/ TypeAccept
    \/ OperatorApply

SpecOperators == InitOperators /\ [][NextOperators]_vars

\* C13: an addition or a division type-checks exactly when its two operands are
\* of the same dimension, and then gives the quantity of that dimension whose
\* magnitude is the f64 sum or quotient of theirs; between a Length and a Weight
\* it is rejected when the program is type-checked and never evaluated.
C13_DimensionSafety ==
    si.dim = "Operator" =>
        /\ si.lhs # si.rhs => si.stage \in {"source", "rejected"}
        /\ si.lhs = si.rhs => si.stage \in {"source", "checked", "value"}
        /\ si.stage = "value" =>
               si.out = [val |-> IF si.trait = "Add" THEN FAdd(si.x, si.y)
                                 ELSE FDiv(si.x, si.y)]

\* C13 witness: a Length divided by a Weight was rejected by the type check.
C13_LengthByWeightRejected ==
    /\ si.dim = "Operator"
    /\ si.stage = "rejected"
    /\ si.trait = "Div" /\ si.lhs = "Length" /\ si.rhs = "Weight"

\* x is a zero of f64.
F64_is_zero(x) == x.k = "zero"

\* C14: for a boat whose beam or displacement is zero, Ratios::new returns its
\* three results, each with one of the defined categories, and leaves the boat
\* as the setters made it: a positive LOA over a zero beam is an infinite ratio
\* and Narrow, a zero LOA over a zero beam is NaN and Beamy; a zero displacement
\* gives a D/L of zero and Ultralight for a positive DWL, NaN and Ultraheavy for
\* a zero DWL, and an SA/D that is infinite for a positive sail area, NaN for a
\* zero one, and High in both cases.
C14_DegenerateClassified ==
    (/\ Computed
     /\ \/ F64_is_zero(Length_to_meter(Boat_b_max(boat)))
        \/ F64_is_zero(Weight_to_kilogram(Boat_displacement(boat))))
        => /\ boat = setv
           /\ DOMAIN ratios
                  = {"length_beam_ratio", "displacement_lenght_ratio",
                     "sail_area_displacement"}
           /\ ratios.length_beam_ratio.beam_character \in BeamCharacters
           /\ ratios.displacement_lenght_ratio.displacement_character
                  \in DisplacementCharacters
           /\ ratios.sail_area_displacement.sail_area_character \in SailAreaCharacters
           /\ F64_is_zero(Length_to_meter(Boat_b_max(boat)))
                  => IF F64_positive(Length_to_meter(Boat_loa(boat)))
                     THEN /\ ratios.length_beam_ratio.value = FInf(0)
                          /\ ratios.length_beam_ratio.beam_character = "Narrow"
                     ELSE /\ ratios.length_beam_ratio.value = FNaN
                          /\ ratios.length_beam_ratio.beam_character = "Beamy"
           /\ F64_is_zero(Weight_to_kilogram(Boat_displacement(boat)))
                  => /\ IF F64_positive(Length_to_meter(Boat_dwl(boat)))
                        THEN /\ ratios.displacement_lenght_ratio.value = FZero(0)
                             /\ ratios.displacement_lenght_ratio.displacement_character
                                    = "Ultralight"
                        ELSE /\ ratios.displacement_lenght_ratio.value = FNaN
                             /\ ratios.displacement_lenght_ratio.displacement_character
                                    = "Ultraheavy"
                     /\ ratios.sail_area_displacement.value
                            = IF F64_positive(Area_to_meter2(Boat_sail_area(boat)))
                              THEN FInf(0) ELSE FNaN
                     /\ ratios.sail_area_displacement.sail_area_character = "High"

\* C14 witness: Ratios::new ran on a boat whose five dimensions are zero; the
\* three ratios are NaN and fell to Beamy, Ultraheavy and High.
C14_AllUndefined ==
    /\ Computed
    /\ \A i \in 1..5 : F64_is_zero(Dimensions(boat)[i])
    /\ ratios.length_beam_ratio.value = FNaN
    /\ ratios.displacement_lenght_ratio.value = FNaN
    /\ ratios.sail_area_displacement.value = FNaN
    /\ ratios.length_beam_ratio.beam_character = "Beamy"
    /\ ratios.displacement_lenght_ratio.displacement_character = "Ultraheavy"
    /\ ratios.sail_area_displacement.sail_area_character = "High"

(***************************************************************************)
(* Degenerate boats: the setters given a zero Length, Weight or Area,      *)
(* which they take like any other, and Ratios::new on the result.          *)
(***************************************************************************)
LoaDegenerate == Meters({0})

DwlDegenerate == Meters({0})

BMaxDegenerate == Meters({0})

DisplacementDegenerate == {Weight_from_kilogram(F64_0)}

SailAreaDegenerate == Meter2({0})

NextDegenerate ==
    \/ BoatNew(TestNames)
    \/ set_loa(LoaDegenerate)
    \/ set_dwl(DwlDegenerate)
    \/ set_b_max(BMaxDegenerate)
    \/ set_displacement(DisplacementDegenerate)
    \/ set_sail_area(SailAreaDegenerate)
    \/ RatiosNew

SpecDegenerate == InitTest /\ [][NextDegenerate]_vars
====
